---- MODULE Spec2Model ----
(***************************************************************************)
(* A model of update.py, the pin checker/updater of pac-nix.               *)
(*                                                                         *)
(* Python strings are modelled as sequences of atoms.  An atom is a TLA+   *)
(* string standing for an indivisible run of characters.  In every text   *)
(* the program splits, counts in, searches or strips (the output of git    *)
(* and nix, the patch, the Atom feed), the characters it looks for         *)
(* (newline, carriage return, tab, '/', '-', '"', the digits of a commit   *)
(* id) are atoms of their own, so that split, count, find, replace, strip  *)
(* and slicing act on the model as they act on the characters.  An         *)
(* f-string is the concatenation of its parts.                             *)
(***************************************************************************)
EXTENDS Integers, Sequences, FiniteSets, TLC

LF == "\n"
CR == "\r"
TAB == "\t"
SLASH == "/"
DASH == "-"
QUOTE == "\""

(***************************************************************************)
(* Bounds of the model.                                                    *)
(***************************************************************************)
\* longest list of --attr options on the command line
MaxAttrs == 2
\* longest list of user-supplied pass-through arguments
MaxRest == 2
\* longest patch text, in chunks, given to fetch_commits_behind on its own
MaxChunks == 6

(***************************************************************************)
(* Python's str operations, on sequences of atoms.                         *)
(***************************************************************************)
\* s[a:]  (a is a 0-based offset, 0 <= a)
DropFirst(s, a) == IF a >= Len(s) THEN <<>> ELSE SubSeq(s, a + 1, Len(s))

\* s[:n]
TakeFirst(s, n) == IF n >= Len(s) THEN s ELSE SubSeq(s, 1, n)

\* sub occurs in s at 0-based offset k
OccursAt(s, sub, k) ==
  /\ k >= 0
  /\ k + Len(sub) <= Len(s)
  /\ SubSeq(s, k + 1, k + Len(sub)) = sub

\* s.find(sub, start): the lowest offset >= start where sub occurs, or -1.
\* A negative start counts from the end of s, as Python's slices do.
Find(s, sub, start) ==
  LET from == IF start < 0 THEN (IF Len(s) + start < 0 THEN 0 ELSE Len(s) + start)
              ELSE start
      hits == {k \in from..Len(s) : OccursAt(s, sub, k)}
  IN  IF hits = {} THEN -1 ELSE CHOOSE k \in hits : \A m \in hits : k <= m

\* s.replace(c, ''), for a one-character c
RemoveChar(s, c) == SelectSeq(s, LAMBDA x : x # c)

RECURSIVE CountFrom(_, _, _)
\* the occurrences of sub that str.count finds scanning s from offset k:
\* leftmost first, the scan resuming after the end of each occurrence
CountFrom(s, sub, k) ==
  LET at == Find(s, sub, k)
  IN  IF k > Len(s) \/ at = -1 THEN 0
      ELSE 1 + CountFrom(s, sub, at + Len(sub))

\* s.count(sub), sub non-empty
Count(s, sub) == CountFrom(s, sub, 0)

RECURSIVE Split(_, _)
\* s.split(c), for a one-character c: always at least one piece
Split(s, c) ==
  LET at == Find(s, <<c>>, 0)
  IN  IF at = -1 THEN <<s>>
      ELSE <<TakeFirst(s, at)>> \o Split(DropFirst(s, at + 1), c)

RECURSIVE LStrip(_, _)
LStrip(s, chars) ==
  IF s # <<>> /\ Head(s) \in chars THEN LStrip(Tail(s), chars) ELSE s

RECURSIVE RStrip(_, _)
RStrip(s, chars) ==
  IF s # <<>> /\ s[Len(s)] \in chars
    THEN RStrip(SubSeq(s, 1, Len(s) - 1), chars) ELSE s

\* s.strip(chars)
Strip(s, chars) == RStrip(LStrip(s, chars), chars)

Digits == <<"0", "1", "2", "3", "4", "5", "6", "7", "8", "9">>

RECURSIVE IntToStr(_)
\* str(n) of a non-negative int, as f-strings format it
IntToStr(n) ==
  IF n < 10 THEN <<Digits[n + 1]>>
  ELSE IntToStr(n \div 10) \o <<Digits[(n % 10) + 1]>>

RECURSIVE Flatten(_)
\* ''.join(parts)
Flatten(parts) ==
  IF parts = <<>> THEN <<>> ELSE Head(parts) \o Flatten(Tail(parts))

\* the sequences over S of length at most n
SeqUpTo(S, n) == UNION {[1..k -> S] : k \in 0..n}

(***************************************************************************)
(* Package (lines 24-69): a record [attr, repo, branch, then].             *)
(***************************************************************************)
Package(attr, repo, branch, then) ==
  [attr |-> attr, repo |-> repo, branch |-> branch, then |-> then]

\* Package.compare_permalink
compare_permalink(p, base, target) ==
  <<"https://github.com/">> \o p.repo \o <<"/compare/">> \o base \o <<"...">> \o target

\* Package.compare_link
compare_link(p, base) == compare_permalink(p, base, p.branch)

\* Package.commits_atom
commits_atom(p) ==
  <<"https://github.com/">> \o p.repo \o <<"/commits/">> \o p.branch \o <<".atom">>

\* Package.repo_git
repo_git(p) == <<"https://github.com/">> \o p.repo \o <<".git">>

\* a plausible slip: the first '/'-separated piece instead of the last
ParseDefaultBranchFirstPiece(out) ==
  LET pieces == Split(Split(out, TAB)[1], SLASH) IN pieces[1]

\* Package.fetch_default_branch, the parsing of the command's output:
\* out.split('\t')[0].split('/')[-1]
ParseDefaultBranch(out) ==
  LET pieces == Split(Split(out, TAB)[1], SLASH) IN pieces[Len(pieces)]

Separator == <<LF, DASH, DASH, DASH, LF>>

\* a plausible slip: the carriage returns are left in
CountSeparatorsRaw(patch) == Count(patch, Separator)

\* Package.fetch_commits_behind, the counting in the fetched patch text:
\* .replace('\r', '').count('\n---\n')
CountSeparators(patch) == Count(RemoveChar(patch, CR), Separator)

\* the length of a commit id, the [:40] of fetch_latest_commit
HashLen == 40

\* Package.fetch_latest_commit, the parsing of the fetched Atom feed
ParseLatestCommit(p, out) ==
  LET marker == <<"https://github.com/">> \o p.repo \o <<"/commit/">>
      left == Find(out, marker, Find(out, <<"<entry>">>, 0))
  IN  TakeFirst(DropFirst(out, left + Len(marker)), HashLen)

(***************************************************************************)
(* PACKAGES (lines 77-86).  The model keeps three of the table's eight     *)
(* rows: two without a branch and one with.  Every row of the table has an *)
(* empty `then`; the model also runs with a non-empty `then` on the first  *)
(* row, which the Package type allows, so that the downstream builds of    *)
(* upgrade() are exercised.                                                *)
(***************************************************************************)
ThenChoices == {<<>>, << <<"basil">> >>}

Table(then) == <<
  Package(<<"asli">>, <<"UQ-PAC", SLASH, "aslp">>, <<>>, then),
  Package(<<"basil">>, <<"UQ-PAC", SLASH, "bil-to-boogie-translator">>, <<>>, <<>>),
  Package(<<"bap-primus">>, <<"UQ-PAC", SLASH, "bap">>, <<"aarch64-pull-request-2">>, <<>>) >>

Range(f) == {f[k] : k \in DOMAIN f}

Attrs(pkgs) == [k \in DOMAIN pkgs |-> pkgs[k].attr]

\* the identifiers --attr accepts (choices=attrs, line 168)
AttrChoices == Range(Attrs(Table(<<>>)))

\* the pass-through arguments the model's command lines are drawn from
RestChoices == {<<"--test">>, <<"--format">>}

Modes == {"check", "upgrade", "do-upgrade"}

(***************************************************************************)
(* The state of a run.                                                     *)
(***************************************************************************)
VARIABLES
  registry,       \* PACKAGES as the module defines it (lines 77-86)
  cliMode,        \* the command line: the mode argument
  cliAttrs,       \* the command line: the --attr options, in order
  cliRest,        \* the command line: the pass-through arguments
  mode,           \* args.mode
  attrs,          \* args.attrs
  rest,           \* args.rest
  PACKAGES,       \* the global PACKAGES, reassigned at line 180
  pc,             \* where the run is
  i,              \* the index of the package the current loop is at
  j,              \* upgrade(): the index in p.then
  broken,         \* upgrade(): the local broken
  current,        \* upgrade(): the local current
  total_commits,  \* upgrade(): the local total_commits
  calls,          \* the external commands and requests issued so far
  out,            \* the lines printed so far
  status,         \* the exit status, once the run has ended
  pinned,         \* the host repository: the pinned revision of each package
  patch,          \* fetch_commits_behind: the patch text fetched last
  twin            \* a reference run on the rewritten command line, or <<>>

vars == <<registry, cliMode, cliAttrs, cliRest, mode, attrs, rest, PACKAGES, pc,
          i, j, broken, current, total_commits, calls, out, status, pinned,
          patch, twin>>

\* the run's state as one record, the form the handlers below act on
State == [cliMode |-> cliMode, cliAttrs |-> cliAttrs, cliRest |-> cliRest,
          mode |-> mode, attrs |-> attrs, rest |-> rest, PACKAGES |-> PACKAGES,
          pc |-> pc, i |-> i, j |-> j, broken |-> broken, current |-> current,
          total_commits |-> total_commits, calls |-> calls, out |-> out,
          status |-> status, pinned |-> pinned, patch |-> patch]

\* the run's state becomes s
Becomes(s) ==
  /\ cliMode' = s.cliMode /\ cliAttrs' = s.cliAttrs /\ cliRest' = s.cliRest
  /\ mode' = s.mode /\ attrs' = s.attrs /\ rest' = s.rest
  /\ PACKAGES' = s.PACKAGES /\ pc' = s.pc /\ i' = s.i /\ j' = s.j
  /\ broken' = s.broken /\ current' = s.current
  /\ total_commits' = s.total_commits /\ calls' = s.calls /\ out' = s.out
  /\ status' = s.status /\ pinned' = s.pinned /\ patch' = s.patch

\* args.dir, left at its default '.'
Dir == <<".">>

\* the revision every package is pinned to when the run starts
OldRev == <<"abc123">>

\* the revision the pin-update tool moves a pin to
NewRev == <<"fedcba">>

\* the state a run starts in, given its command line and the package table
Start(table, m, as, r) ==
  [cliMode |-> m, cliAttrs |-> as, cliRest |-> r,
   mode |-> m, attrs |-> as, rest |-> r, PACKAGES |-> table,
   pc |-> "parse", i |-> 1, j |-> 1, broken |-> FALSE, current |-> <<>>,
   total_commits |-> 0, calls |-> <<>>, out |-> <<>>, status |-> -1,
   pinned |-> [a \in AttrChoices |-> OldRev], patch |-> <<>>]

(***************************************************************************)
(* What the external tools and the remote can answer.                      *)
(***************************************************************************)
Response(ok, stdout) == [ok |-> ok, stdout |-> stdout]

\* the answer of a step that makes no call
NoResponse == Response(TRUE, <<>>)

\* a command that exits non-zero, a request that fails
Failure == Response(FALSE, <<>>)

Sha == <<"0a1b2c3d">>

\* `git ls-remote --symref <url> HEAD` of a repository whose HEAD is a
\* symbolic ref: a "ref: <path>\tHEAD" line, then "<sha>\tHEAD"
Symref(path) == <<"ref: ">> \o path \o <<TAB, "HEAD", LF>> \o Sha \o <<TAB, "HEAD", LF>>

\* the ref HEAD points to in each upstream repository: a plain branch name
\* in one, a branch name with a '/' in it in the others
RefPath(p) ==
  IF p.attr = <<"asli">> THEN <<"refs", SLASH, "heads", SLASH, "main">>
  ELSE <<"refs", SLASH, "heads", SLASH, "dev", SLASH, "next">>

LsRemoteResponses(p) == {Response(TRUE, Symref(RefPath(p))), Failure}

\* `nix eval --json <dir>#<attr>.meta.broken`
BrokenResponses == {Response(TRUE, <<"true", LF>>), Response(TRUE, <<"false", LF>>), Failure}

\* `nix eval <dir>#<attr>.src.rev` prints the pinned revision, quoted
RevResponses(s, p) == {Response(TRUE, <<QUOTE>> \o s.pinned[p.attr] \o <<QUOTE, LF>>), Failure}

\* one commit of a .patch: its header, the separator, its diff
PatchCommit(eol) ==
  <<"From 1f2e3d Mon Sep 17 00:00:00 2001">> \o eol \o <<"Subject: [PATCH] fix">> \o eol
    \o <<DASH, DASH, DASH>> \o eol \o <<" a.ml | 2 +">> \o eol

\* the .patch of a comparison: empty, one commit, two commits with CRLF ends
PatchBodies == {<<>>, PatchCommit(<<LF>>), PatchCommit(<<CR, LF>>) \o PatchCommit(<<CR, LF>>)}

PatchResponses == {Response(TRUE, body) : body \in PatchBodies} \cup {Failure}

HexDigits == <<"d", "e", "a", "d", "b", "e", "e", "f">>

\* the commit id at the head of the branch
LatestHash == [k \in 1..HashLen |-> HexDigits[((k - 1) % 8) + 1]]

\* the Atom feed of a branch's commits
Feed(p) ==
  <<"<feed>", "<link href=\"">> \o commits_atom(p) \o <<"\"/>", "<entry>", "<id>">>
    \o LatestHash \o <<"</id>", "<link href=\"">>
    \o <<"https://github.com/">> \o p.repo \o <<"/commit/">> \o LatestHash
    \o <<"\"/>", "</entry>", "</feed>">>

FeedResponses(p) == {Response(TRUE, Feed(p)), Failure}

ToolResponses == {NoResponse, Failure}

(***************************************************************************)
(* The steps of a run, as functions from the state and the answer of the   *)
(* call the step makes to the next state.                                  *)
(***************************************************************************)
\* an entry of calls: what was run or requested, for which package, and
\* what came back
Call(what, p, argv, resp) ==
  [what |-> what, pkg |-> p.attr, argv |-> argv, ok |-> resp.ok, stdout |-> resp.stdout]

\* the package a loop is at
Cur(s) == s.PACKAGES[s.i]

\* the loop of line 194 moves on: upgrade() of the next package, or the end
NextPackage(s) ==
  IF s.i < Len(s.PACKAGES)
    THEN [s EXCEPT !.i = s.i + 1, !.pc = "upgrade"]
    ELSE [s EXCEPT !.pc = "done", !.status = 0]

\* a plausible slip: the failure is caught and the loop goes on
RaiseAndGoOn(s) == [NextPackage(s) EXCEPT !.status = 1]

\* a failed call raises (subprocess.run(check=True), urlopen), nothing
\* catches it, and the run ends with a traceback and exit status 1
Raise(s) == [s EXCEPT !.pc = "failed", !.status = 1]

\* a plausible slip: the packages taken in the order of the --attr options
FilterPackagesByOption(pkgs, as) ==
  Flatten([k \in DOMAIN as |-> SelectSeq(pkgs, LAMBDA p : p.attr = as[k])])

\* line 180: [p for p in PACKAGES if p.attr in args.attrs]
FilterPackages(pkgs, as) == SelectSeq(pkgs, LAMBDA p : p.attr \in Range(as))

\* a plausible slip: the flags appended instead of prepended
DoUpgradeRestAppended(r) == r \o << <<"--build">>, <<"--commit">>, <<"--test">> >>

\* line 184: ['--build', '--commit', '--test'] + args.rest
DoUpgradeRest(r) == << <<"--build">>, <<"--commit">>, <<"--test">> >> \o r

\* lines 173-187: the defaults, the filter and the do-upgrade rewrite
ParseArgs(s) ==
  LET as == IF s.cliAttrs = <<>> THEN Attrs(s.PACKAGES) ELSE s.cliAttrs
      pkgs == FilterPackages(s.PACKAGES, as)
      t == [s EXCEPT !.attrs = as, !.PACKAGES = pkgs,
                     !.mode = IF s.cliMode = "do-upgrade" THEN "upgrade" ELSE s.cliMode,
                     !.rest = IF s.cliMode = "do-upgrade" THEN DoUpgradeRest(s.cliRest)
                              ELSE s.cliRest,
                     !.i = 1]
  IN  IF pkgs = <<>> THEN [t EXCEPT !.pc = "done", !.status = 0]
      ELSE [t EXCEPT !.pc = "resolve"]

\* lines 189-192, one round of the loop
ResolveBranch(s, resp) ==
  LET p == Cur(s)
      call == Call("ls-remote", p,
                   << <<"git">>, <<"ls-remote">>, <<"--symref">>, repo_git(p), <<"HEAD">> >>,
                   resp)
      fetched == [s EXCEPT !.calls = Append(s.calls, call)]
      t == IF p.branch # <<>> THEN s
           ELSE [fetched EXCEPT !.PACKAGES[s.i].branch = ParseDefaultBranch(resp.stdout)]
  IN  IF p.branch = <<>> /\ ~resp.ok THEN Raise(fetched)
      ELSE IF s.i < Len(s.PACKAGES) THEN [t EXCEPT !.i = s.i + 1]
      ELSE [t EXCEPT !.i = 1, !.pc = "upgrade"]

\* json.loads of the output of the broken query
JsonLoads(text) == Strip(text, {LF, " "}) = <<"true">>

\* a plausible slip: check mode falls into the upgrade branch
DispatchAlwaysUpgrade(m) == "update"

\* lines 121, 131, 154: the branch of upgrade() a mode takes
Dispatch(m) ==
  IF m = "upgrade" THEN "update" ELSE IF m = "check" THEN "current" ELSE "assert"

\* lines 116-119: the broken query that opens upgrade()
QueryBroken(s, resp) ==
  LET p == Cur(s)
      call == Call("eval-broken", p,
                   << <<"nix">>, <<"eval">>, <<"--json">>,
                      Dir \o <<"#">> \o p.attr \o <<".meta.broken">> >>,
                   resp)
      t == [s EXCEPT !.calls = Append(s.calls, call)]
  IN  IF ~resp.ok THEN Raise(t)
      ELSE [t EXCEPT !.broken = JsonLoads(resp.stdout), !.pc = Dispatch(s.mode)]

\* a plausible slip: only '--build' is removed
StripBuildOnly(r) == SelectSeq(r, LAMBDA x : x # <<"--build">>)

\* line 124: [x for x in args.rest if x not in ('--build', '--test')]
StripBuildTest(r) == SelectSeq(r, LAMBDA x : x \notin {<<"--build">>, <<"--test">>})

\* line 123
BrokenWarning(p) ==
  <<"::", "warning", " title=">> \o p.attr \o <<" broken", "::", "will not build or test ">>
    \o p.attr \o <<" during upgrade">>

\* lines 125-126: the command line of the pin-update tool
NixUpdateArgv(p, r) ==
  << <<"nix-update">>, <<"--flake">>, <<"-f">>, Dir, p.attr, <<"--version">>,
     <<"branch=">> \o p.branch >> \o r

\* after the pin update, and after each downstream build: the next p2 of
\* line 127, or the next package
NextDownstream(s, k) ==
  IF k <= Len(Cur(s).then) THEN [s EXCEPT !.j = k, !.pc = "then"]
  ELSE NextPackage(s)

\* lines 122-126: the warning and the stripping for a broken package, then
\* the pin update
NixUpdate(s, resp) ==
  LET p == Cur(s)
      r == IF s.broken THEN StripBuildTest(s.rest) ELSE s.rest
      call == Call("nix-update", p, NixUpdateArgv(p, r), resp)
      t == [s EXCEPT !.rest = r,
                     !.out = IF s.broken THEN Append(s.out, BrokenWarning(p)) ELSE s.out,
                     !.calls = Append(s.calls, call)]
  IN  IF ~resp.ok THEN Raise(t)
      ELSE NextDownstream([t EXCEPT !.pinned[p.attr] = NewRev], 1)

\* lines 127-129, one round of the loop
DownstreamBuild(s, resp) ==
  LET p == Cur(s)
      p2 == p.then[s.j]
      call == Call("nix-build", p,
                   << <<"nix">>, <<"build">>, Dir \o <<"#">> \o p2, <<"--no-out-link">> >>,
                   resp)
      t == [s EXCEPT !.out = Append(s.out, <<"testing downstream build of ">> \o p2 \o <<"...">>),
                     !.calls = Append(s.calls, call)]
  IN  IF ~resp.ok THEN Raise(t) ELSE NextDownstream(t, s.j + 1)

\* lines 133-134: the pinned revision, the quotes and the newline stripped
QueryCurrent(s, resp) ==
  LET p == Cur(s)
      call == Call("eval-rev", p,
                   << <<"nix">>, <<"eval">>, Dir \o <<"#">> \o p.attr \o <<".src.rev">> >>,
                   resp)
      t == [s EXCEPT !.calls = Append(s.calls, call)]
  IN  IF ~resp.ok THEN Raise(t)
      ELSE [t EXCEPT !.current = Strip(resp.stdout, {QUOTE, LF}), !.pc = "behind"]

\* line 136, and fetch_commits_behind (lines 58-63)
FetchCommitsBehind(s, resp) ==
  LET p == Cur(s)
      call == Call("curl-patch", p, <<compare_link(p, s.current) \o <<".patch">> >>, resp)
      t == [s EXCEPT !.calls = Append(s.calls, call)]
  IN  IF ~resp.ok THEN Raise(t)
      ELSE [t EXCEPT !.patch = resp.stdout,
                     !.total_commits = CountSeparators(resp.stdout),
                     !.pc = "latest"]

\* a plausible slip: a package one commit behind passes as up to date
SeverityAboveOne(total) == IF total > 1 THEN "warning" ELSE "notice"

\* line 142: which of the two annotations is printed
Severity(total) == IF total # 0 THEN "warning" ELSE "notice"

\* lines 143-151: the annotation line
Annotation(p, total, permalink) ==
  <<"::", Severity(total),
    IF Severity(total) = "warning" THEN " title=package outdated: "
    ELSE " title=package up to date: ">>
    \o p.attr \o <<"::">> \o p.attr \o <<" differs by ">> \o IntToStr(total)
    \o <<" non-merge commits from ">> \o p.branch \o <<" (">> \o permalink \o <<")">>

\* a plausible slip: the permalink ends at the branch, not at the commit
AnnotationPermalinkToBranch(p, base, latest) == compare_permalink(p, base, p.branch)

\* line 138: the permalink of the annotation
AnnotationPermalink(p, base, latest) == compare_permalink(p, base, latest)

\* lines 137-152: the latest commit, then the report
FetchLatestAndReport(s, resp) ==
  LET p == Cur(s)
      call == Call("curl-atom", p, <<commits_atom(p)>>, resp)
      t == [s EXCEPT !.calls = Append(s.calls, call)]
      latest == ParseLatestCommit(p, resp.stdout)
      permalink == AnnotationPermalink(p, s.current, latest)
  IN  IF ~resp.ok THEN Raise(t)
      ELSE NextPackage([t EXCEPT !.out = s.out \o
             << <<>>,
                <<"compare link: ">> \o compare_link(p, s.current),
                Annotation(p, s.total_commits, permalink),
                <<>> >>])

\* what the call that s is about to make can answer
Responses(s) ==
  CASE s.pc = "resolve" -> IF Cur(s).branch = <<>> THEN LsRemoteResponses(Cur(s)) ELSE {NoResponse}
    [] s.pc = "upgrade" -> BrokenResponses
    [] s.pc = "update" -> ToolResponses
    [] s.pc = "then" -> ToolResponses
    [] s.pc = "current" -> RevResponses(s, Cur(s))
    [] s.pc = "behind" -> PatchResponses
    [] s.pc = "latest" -> FeedResponses(Cur(s))
    [] OTHER -> {NoResponse}

\* the step s takes on the answer resp
Step(s, resp) ==
  CASE s.pc = "parse" -> ParseArgs(s)
    [] s.pc = "resolve" -> ResolveBranch(s, resp)
    [] s.pc = "upgrade" -> QueryBroken(s, resp)
    [] s.pc = "update" -> NixUpdate(s, resp)
    [] s.pc = "then" -> DownstreamBuild(s, resp)
    [] s.pc = "current" -> QueryCurrent(s, resp)
    [] s.pc = "behind" -> FetchCommitsBehind(s, resp)
    [] s.pc = "latest" -> FetchLatestAndReport(s, resp)
    [] OTHER -> s

(***************************************************************************)
(* The run as a state machine.                                             *)
(***************************************************************************)
\* the reference run, when there is one, takes its own step on the same answer
TwinAfter(resp) == IF twin = <<>> THEN twin ELSE <<Step(twin[1], resp)>>

\* the run moves to state s on the answer resp
Run(s, resp) == Becomes(s) /\ twin' = TwinAfter(resp) /\ UNCHANGED registry

\* the command lines of the model
CommandLines ==
  /\ registry \in {Table(then) : then \in ThenChoices}
  /\ cliMode \in Modes
  /\ cliAttrs \in SeqUpTo(AttrChoices, MaxAttrs)
  /\ cliRest \in SeqUpTo(RestChoices, MaxRest)

\* the state Becomes(s) describes, unprimed
Is(s) ==
  /\ mode = s.mode /\ attrs = s.attrs /\ rest = s.rest
  /\ PACKAGES = s.PACKAGES /\ pc = s.pc /\ i = s.i /\ j = s.j
  /\ broken = s.broken /\ current = s.current
  /\ total_commits = s.total_commits /\ calls = s.calls /\ out = s.out
  /\ status = s.status /\ pinned = s.pinned /\ patch = s.patch

Init ==
  /\ CommandLines
  /\ Is(Start(registry, cliMode, cliAttrs, cliRest))
  /\ twin = <<>>

DoParseArgs == pc = "parse" /\ Run(ParseArgs(State), NoResponse)

DoResolveBranch ==
  pc = "resolve" /\ \E resp \in Responses(State) : Run(ResolveBranch(State, resp), resp)

DoQueryBroken ==
  pc = "upgrade" /\ \E resp \in Responses(State) : Run(QueryBroken(State, resp), resp)

DoNixUpdate ==
  pc = "update" /\ \E resp \in Responses(State) : Run(NixUpdate(State, resp), resp)

DoDownstreamBuild ==
  pc = "then" /\ \E resp \in Responses(State) : Run(DownstreamBuild(State, resp), resp)

DoQueryCurrent ==
  pc = "current" /\ \E resp \in Responses(State) : Run(QueryCurrent(State, resp), resp)

DoFetchCommitsBehind ==
  pc = "behind" /\ \E resp \in Responses(State) : Run(FetchCommitsBehind(State, resp), resp)

DoFetchLatestAndReport ==
  pc = "latest" /\ \E resp \in Responses(State) : Run(FetchLatestAndReport(State, resp), resp)

Next ==
  \/ DoParseArgs
  \/ DoResolveBranch
  \/ DoQueryBroken
  \/ DoNixUpdate
  \/ DoDownstreamBuild
  \/ DoQueryCurrent
  \/ DoFetchCommitsBehind
  \/ DoFetchLatestAndReport

Spec == Init /\ [][Next]_vars

(***************************************************************************)
(* The same run beside a reference run: the run of 'upgrade' on the        *)
(* pass-through arguments --build --commit --test followed by the user's   *)
(* when the mode is 'do-upgrade', of the same command line otherwise.      *)
(* Both get the same answers from the tools.                               *)
(***************************************************************************)
InitTwin ==
  /\ CommandLines
  /\ Is(Start(registry, cliMode, cliAttrs, cliRest))
  /\ twin = << IF cliMode = "do-upgrade"
                 THEN Start(registry, "upgrade", cliAttrs,
                            << <<"--build">>, <<"--commit">>, <<"--test">> >> \o cliRest)
                 ELSE Start(registry, cliMode, cliAttrs, cliRest) >>

SpecTwin == InitTwin /\ [][Next]_vars

(***************************************************************************)
(* fetch_commits_behind on its own, on every patch text of the bound.      *)
(***************************************************************************)
PatchChunks == {<<LF>>, <<CR>>, <<DASH, DASH, DASH>>, <<"a">>}

PatchTexts == {Flatten(chunks) : chunks \in SeqUpTo(PatchChunks, MaxChunks)}

InitCount ==
  /\ registry = Table(<<>>)
  /\ cliMode = "check" /\ cliAttrs = <<>> /\ cliRest = <<>>
  /\ \E text \in PatchTexts :
       Is([Start(registry, cliMode, cliAttrs, cliRest) EXCEPT !.pc = "count", !.patch = text])
  /\ twin = <<>>

DoCount ==
  /\ pc = "count"
  /\ total_commits' = CountSeparators(patch)
  /\ pc' = "counted"
  /\ UNCHANGED <<registry, cliMode, cliAttrs, cliRest, mode, attrs, rest, PACKAGES,
                 i, j, broken, current, calls, out, status, pinned, patch, twin>>

NextCount == DoCount

SpecCount == InitCount /\ [][NextCount]_vars

(***************************************************************************)
(* Properties.                                                             *)
(***************************************************************************)
\* the text s starts with sub
StartsWith(s, sub) == Len(sub) <= Len(s) /\ SubSeq(s, 1, Len(sub)) = sub

\* the text s holds sub
Contains(s, sub) == \E k \in 0..Len(s) : OccursAt(s, sub, k)

\* the indices of the calls of one kind
CallsOf(what) == {k \in DOMAIN calls : calls[k].what = what}

\* the broken query made for the package of call k answered true
AnsweredBroken(k) ==
  \E m \in CallsOf("eval-broken") :
    m < k /\ calls[m].pkg = calls[k].pkg /\ calls[m].ok /\ calls[m].stdout = <<"true", LF>>

\* the broken query made for the package of call k answered false
AnsweredNotBroken(k) ==
  \E m \in CallsOf("eval-broken") :
    m < k /\ calls[m].pkg = calls[k].pkg /\ calls[m].ok /\ calls[m].stdout = <<"false", LF>>

\* what follows `nix-update --flake -f <dir> <attr> --version branch=<branch>`
PassedThrough(k) == SubSeq(calls[k].argv, 8, Len(calls[k].argv))

\* the pass-through arguments of the run, as the command line gives them
RunRest ==
  IF cliMode = "do-upgrade"
    THEN << <<"--build">>, <<"--commit">>, <<"--test">> >> \o cliRest
    ELSE cliRest

\* C1: in upgrade mode, the pin-update tool is never given '--build' or
\* '--test' for a package whose broken flag is true, whatever the caller
\* passed and whichever of 'upgrade' and 'do-upgrade' the mode was.
C1_BrokenNeverBuiltOrTested ==
  \A k \in CallsOf("nix-update") :
    AnsweredBroken(k) =>
      /\ <<"--build">> \notin Range(calls[k].argv)
      /\ <<"--test">> \notin Range(calls[k].argv)

\* a broken package is updated under do-upgrade with '--test' also passed
\* by the caller
C1_Witness ==
  /\ cliMode = "do-upgrade"
  /\ <<"--test">> \in Range(cliRest)
  /\ \E k \in CallsOf("nix-update") : AnsweredBroken(k) /\ calls[k].ok

\* C2: in upgrade mode, the pin-update tool is given exactly the run's
\* pass-through arguments, unchanged and in order, for every package whose
\* broken flag is false, whichever packages were processed before it.
C2_NotBrokenGetsRunRest ==
  \A k \in CallsOf("nix-update") :
    AnsweredNotBroken(k) => PassedThrough(k) = RunRest

\* C3: a do-upgrade run on R issues the same calls, with the same answers,
\* and prints the same lines as an upgrade run on --build --commit --test
\* followed by R, and ends the same way.
C3_DoUpgradeIsUpgradeWithFlags ==
  twin # <<>> =>
    /\ calls = twin[1].calls
    /\ out = twin[1].out
    /\ status = twin[1].status

\* a do-upgrade run with arguments of the caller's has come to its end
\* after updating a broken package and a package that is not broken
C3_Witness ==
  /\ twin # <<>>
  /\ cliMode = "do-upgrade"
  /\ cliRest # <<>>
  /\ pc = "done"
  /\ \E k \in CallsOf("nix-update") : AnsweredBroken(k)
  /\ \E k \in CallsOf("nix-update") : AnsweredNotBroken(k)

\* a printed line is an annotation
IsAnnotation(line) == Len(line) >= 2 /\ line[1] = "::"

\* the annotations of check mode about the package a
AnnotationsOf(a) ==
  {n \in DOMAIN out :
     /\ IsAnnotation(out[n])
     /\ out[n][3] \in {" title=package outdated: ", " title=package up to date: "}
     /\ StartsWith(DropFirst(out[n], 3), a \o <<"::">>)}

\* the packages whose check has run to its end
Checked == {calls[k].pkg : k \in {m \in CallsOf("curl-atom") : calls[m].ok}}

\* what fetch_commits_behind returned for the package a
Behind(a) ==
  LET k == CHOOSE m \in CallsOf("curl-patch") : calls[m].pkg = a
  IN  CountSeparators(calls[k].stdout)

\* C4: in check mode every package checked gets exactly one annotation,
\* a warning if and only if fetch_commits_behind returned a non-zero count
\* for it and a notice if and only if it returned zero, and no other
\* annotation is printed.
C4_SeverityFollowsCount ==
  cliMode = "check" =>
    /\ \A a \in Checked :
         /\ Cardinality(AnnotationsOf(a)) = 1
         /\ \A n \in AnnotationsOf(a) :
              /\ out[n][2] = "warning" <=> Behind(a) # 0
              /\ out[n][2] = "notice" <=> Behind(a) = 0
    /\ Cardinality({n \in DOMAIN out : IsAnnotation(out[n])}) = Cardinality(Checked)

\* a check of all three packages has ended, the first up to date, the
\* second one commit behind and the third two
C4_Witness ==
  /\ cliMode = "check"
  /\ pc = "done"
  /\ Len(PACKAGES) = 3
  /\ Behind(PACKAGES[1].attr) = 0
  /\ Behind(PACKAGES[2].attr) = 1
  /\ Behind(PACKAGES[3].attr) = 2

\* the package of the run with identifier a
PackageOf(a) == PACKAGES[CHOOSE n \in DOMAIN PACKAGES : PACKAGES[n].attr = a]

\* what an annotation of check mode carries beside the permalink
CarriesAttrCountBranch(line, p) ==
  /\ Contains(line, p.attr)
  /\ Contains(line, <<" differs by ">> \o IntToStr(Behind(p.attr)))
  /\ Contains(line, <<" non-merge commits from ">> \o p.branch)

\* C5 as claimed: the annotation of check mode carries the package
\* identifier, the commit count, the branch name and the permalink
\* https://github.com/<repo>/compare/<base>...<branch>, base the pinned
\* revision and branch the tracked branch.
C5_PermalinkToBranch ==
  cliMode = "check" =>
    \A a \in Checked : \A n \in AnnotationsOf(a) :
      LET p == PackageOf(a) IN
        /\ CarriesAttrCountBranch(out[n], p)
        /\ Contains(out[n], <<"https://github.com/">> \o p.repo \o <<"/compare/">>
                              \o pinned[a] \o <<"...">> \o p.branch)

\* C5 as amended: the annotation of check mode carries the package
\* identifier, the commit count, the branch name and the permalink
\* https://github.com/<repo>/compare/<base>...<latest>, base the pinned
\* revision and latest the 40-character id of the branch's latest commit.
C5_PermalinkToLatest ==
  cliMode = "check" =>
    \A a \in Checked : \A n \in AnnotationsOf(a) :
      LET p == PackageOf(a) IN
        /\ CarriesAttrCountBranch(out[n], p)
        /\ Contains(out[n], <<" (", "https://github.com/">> \o p.repo \o <<"/compare/">>
                              \o pinned[a] \o <<"...">> \o LatestHash \o <<")">>)

\* a package with an inferred branch and a package with a given branch
\* have both been checked
C5_Witness ==
  /\ cliMode = "check"
  /\ <<"asli">> \in Checked
  /\ <<"bap-primus">> \in Checked
  /\ AnnotationsOf(<<"asli">>) # {}
  /\ AnnotationsOf(<<"bap-primus">>) # {}

\* the row of the table with identifier a
RegistryRow(a) == registry[CHOOSE n \in DOMAIN registry : registry[n].attr = a]

\* the loop of lines 189-192 has run to its end
Resolved ==
  \/ pc \in {"upgrade", "update", "then", "current", "behind", "latest", "done"}
  \/ pc = "failed" /\ \E k \in DOMAIN calls : calls[k].what # "ls-remote"

\* the ref path of a symbolic-HEAD response: what stands between the
\* leading "ref: " and the first tab
RefPathIn(text) ==
  LET tab == CHOOSE k \in DOMAIN text :
               text[k] = TAB /\ \A m \in 1..(k - 1) : text[m] # TAB
  IN  SubSeq(text, 2, tab - 1)

\* the part of a path after its last '/'
FinalSegment(path) ==
  LET last == CHOOSE k \in DOMAIN path :
                path[k] = SLASH /\ \A m \in (k + 1)..Len(path) : path[m] # SLASH
  IN  SubSeq(path, last + 1, Len(path))

\* C6: once the branches are resolved, every selected package has a branch:
\* the one the table gives it, kept unchanged and never queried, or, when
\* the table gives none, the final '/'-separated segment of the ref path in
\* the answer of the one symbolic-HEAD query made for it.
C6_BranchesResolved ==
  Resolved =>
    \A n \in DOMAIN PACKAGES :
      LET p == PACKAGES[n]
          given == RegistryRow(p.attr).branch
          queries == {k \in CallsOf("ls-remote") : calls[k].pkg = p.attr}
      IN  /\ p.branch # <<>>
          /\ given # <<>> => p.branch = given /\ queries = {}
          /\ given = <<>> =>
               /\ Cardinality(queries) = 1
               /\ \A k \in queries : p.branch = FinalSegment(RefPathIn(calls[k].stdout))

\* all three packages are selected, the branches are resolved and the first
\* package action is about to start
C6_Witness ==
  /\ pc = "upgrade"
  /\ i = 1
  /\ Len(PACKAGES) = 3
  /\ CallsOf("eval-broken") = {}
  /\ Cardinality(CallsOf("ls-remote")) = 2
  /\ PACKAGES[1].branch = <<"main">>
  /\ PACKAGES[2].branch = <<"next">>
  /\ PACKAGES[3].branch = <<"aarch64-pull-request-2">>

\* the identifiers of the packages upgrade() was entered for, in order
ActedOn ==
  LET ks == SelectSeq([k \in DOMAIN calls |-> k], LAMBDA k : calls[k].what = "eval-broken")
  IN  [n \in DOMAIN ks |-> calls[ks[n]].pkg]

\* the identifiers the command line selects, in the table's order
Selected ==
  SelectSeq(Attrs(registry),
            LAMBDA a : cliAttrs = <<>> \/ \E n \in DOMAIN cliAttrs : cliAttrs[n] = a)

\* C7: the packages acted on are those of the table that --attr names (all
\* of them when there is no --attr), each once, in the table's order,
\* whatever the order and the repetitions of the --attr options: at every
\* moment the packages acted on so far are the first of them, and at the
\* end of a run that did not fail they are all of them.
C7_ActsInRegistryOrder ==
  /\ Len(ActedOn) <= Len(Selected)
  /\ ActedOn = SubSeq(Selected, 1, Len(ActedOn))
  /\ pc = "done" => ActedOn = Selected

\* a run given --attr bap-primus --attr asli, against the table's order,
\* has come to its end
C7_Witness ==
  /\ cliAttrs = << <<"bap-primus">>, <<"asli">> >>
  /\ pc = "done"
  /\ ActedOn = << <<"asli">>, <<"bap-primus">> >>

\* the offsets at which the separator occurs in a text
SeparatorsIn(text) == {k \in 0..Len(text) : OccursAt(text, Separator, k)}

\* the most separators of a text that can be taken without two of them
\* sharing a character
DisjointSeparators(text) ==
  LET fits(S) == \A a \in S : \A b \in S : a # b => (a + Len(Separator) <= b \/ b + Len(Separator) <= a)
      sizes == {Cardinality(S) : S \in {T \in SUBSET SeparatorsIn(text) : fits(T)}}
  IN  CHOOSE n \in sizes : \A m \in sizes : m <= n

\* C8 as claimed: fetch_commits_behind returns K when the patch text holds
\* exactly K occurrences of newline, three dashes, newline, and 0 when the
\* patch text is empty.
C8_CountsOccurrences ==
  pc = "counted" => total_commits = Cardinality(SeparatorsIn(patch))

\* C8 as amended: fetch_commits_behind returns K when K is the largest
\* number of occurrences of newline, three dashes, newline, no two of them
\* sharing a character, in the patch text with its carriage returns
\* removed, and 0 when the patch text is empty.
C8_CountsDisjointOccurrencesSansCR ==
  pc = "counted" =>
    /\ total_commits = DisjointSeparators(RemoveChar(patch, CR))
    /\ patch = <<>> => total_commits = 0

\* a text with one separator, its lines ending in carriage return and
\* newline, has been counted
C8_Witness ==
  /\ pc = "counted"
  /\ patch = <<CR, LF, DASH, DASH, DASH, CR, LF>>
  /\ total_commits = 1

\* C9: a failed call is the last thing the run does: no command or request
\* follows it, for that package or a later one, and the run has ended with
\* a failure status.
C9_FailFast ==
  /\ \A k \in DOMAIN calls : ~calls[k].ok => k = Len(calls) /\ pc = "failed" /\ status = 1
  /\ pc = "failed" => calls # <<>> /\ ~calls[Len(calls)].ok
  /\ pc = "done" => status = 0

\* the pin update of the first of three packages has failed
C9_Witness ==
  /\ pc = "failed"
  /\ Len(PACKAGES) = 3
  /\ i = 1
  /\ calls[Len(calls)].what = "nix-update"
  /\ ~calls[Len(calls)].ok

\* C10: a run in check mode never invokes the pin-update tool or the build
\* tool, and leaves every pinned revision as it found it.
C10_CheckIsReportOnly ==
  cliMode = "check" =>
    /\ CallsOf("nix-update") = {}
    /\ CallsOf("nix-build") = {}
    /\ pinned = [a \in AttrChoices |-> OldRev]

\* a check of all packages, one of them broken and with downstream
\* packages, with pass-through arguments given, has come to its end
C10_Witness ==
  /\ cliMode = "check"
  /\ pc = "done"
  /\ cliRest # <<>>
  /\ Len(PACKAGES) = 3
  /\ PACKAGES[1].then # <<>>
  /\ \E k \in CallsOf("eval-broken") : calls[k].pkg = <<"asli">> /\ calls[k].stdout = <<"true", LF>>

====
